---- MODULE Spec2Model ----
(***************************************************************************)
(* Model of pyppeteer.worker.Worker: a one-shot adapter that turns the     *)
(* session's Runtime.executionContextCreated event into the result of a    *)
(* single asyncio future, relays Log.entryAdded to a caller-supplied sink, *)
(* and offers executionContext / evaluate / evaluateHandle on top of the   *)
(* future.  Everything runs on one event loop: each action below is one    *)
(* uninterrupted run of a callback or of a task step.                      *)
(***************************************************************************)
EXTENDS Naturals, Sequences, FiniteSets, TLC

\* ---------------------------------------------------------------- bounds
NumCallers == 2
MaxContextEvents == 2
MaxLogEvents == 2

Callers == 1..NumCallers

\* ---------------------------------------------------------------- inputs
Urls == {"worker.js"}
AnyUrls == {"worker.js", "data:text/javascript,1"}
NoUrl == ""
ContextIds == {7, 8}
LogTexts == {"1", "2"}
Requests ==
    { <<"(a,b)=>a+b", <<1, 2>>>>,
      <<"self.id", <<>>>>,
      <<"()=>{throw 1}", <<>>>> }

\* the absent value: the result of a pending future, of an unfinished call
None == [id |-> 0]
Session == "CDPSession"

EvContext == "Runtime.executionContextCreated"
EvLog == "Log.entryAdded"
Events == {EvContext, EvLog}

\* ------------------------------------------------------------- the state
VARIABLES
    constructed,                \* Worker.__init__ has returned normally
    ctorRaised,                 \* Worker.__init__ raised to its caller
    _client,                    \* the session: listeners and what was asked of it
    _url,                       \* self._url
    _executionContextPromise,   \* self._executionContextPromise
    debugLog,                   \* what debugError has logged
    contexts,                   \* every ExecutionContext object built so far
    ready,                      \* tasks whose wake-up the loop has scheduled
    calls,                      \* one accessor call per caller
    contextEmitted,             \* context-created emissions and what they raised
    logEmitted,                 \* log-entry emissions of the session
    sinkCalls,                  \* invocations of the caller-supplied sink
    urlGiven,                   \* the url argument of the constructor
    urlReturned,                \* what the url property returned last
    cancelled                   \* callers whose task was cancelled by a deadline

vars == <<constructed, ctorRaised, _client, _url, _executionContextPromise,
          debugLog, contexts, ready, calls, contextEmitted, logEmitted,
          sinkCalls, urlGiven, urlReturned, cancelled>>

\* ------------------------------------------------- the session (external)
NewSession == [listeners |-> [e \in Events |-> <<>>], trace |-> <<>>]

\* EventEmitter.on: registers the handler after the ones already there
on(client, event, handler) ==
    [client EXCEPT !.listeners[event] = Append(@, handler),
                   !.trace = Append(@, [op |-> "on", name |-> event,
                                        rejected |-> FALSE])]

\* CDPSession.send: the request is attempted once; the session may reject
send(client, method, rejects) ==
    [client |-> [client EXCEPT !.trace = Append(@, [op |-> "send",
                                                     name |-> method,
                                                     rejected |-> rejects])],
     raised |-> rejects]

\* helper.debugError: records the error, raises nothing
debugError(log, what) == Append(log, what)

\* ------------------------------------------------------ the asyncio future
create_future == [state |-> "pending", value |-> None, callbacks |-> {}]

set_result_overwrite(fut, value) ==
    [fut |-> [state |-> "done", value |-> value, callbacks |-> {}],
     scheduled |-> fut.callbacks,
     error |-> "none"]

set_result_no_wakeup(fut, value) ==
    IF fut.state # "pending"
    THEN [fut |-> fut, scheduled |-> {}, error |-> "InvalidStateError"]
    ELSE [fut |-> [state |-> "done", value |-> value, callbacks |-> {}],
          scheduled |-> {},
          error |-> "none"]

set_result_wake_one(fut, value) ==
    IF fut.state # "pending"
    THEN [fut |-> fut, scheduled |-> {}, error |-> "InvalidStateError"]
    ELSE [fut |-> [state |-> "done", value |-> value, callbacks |-> {}],
          scheduled |-> {c \in fut.callbacks :
                            \A d \in fut.callbacks : c <= d},
          error |-> "none"]

\* Future.set_result: InvalidStateError unless pending; otherwise the value
\* is stored and every waiter's wake-up is scheduled
set_result(fut, value) ==
    IF fut.state # "pending"
    THEN [fut |-> fut, scheduled |-> {}, error |-> "InvalidStateError"]
    ELSE [fut |-> [state |-> "done", value |-> value, callbacks |-> {}],
          scheduled |-> fut.callbacks,
          error |-> "none"]

\* Future.cancel: nothing unless pending; otherwise the future is cancelled
\* and every waiter's wake-up is scheduled
cancel_future(fut) ==
    IF fut.state # "pending"
    THEN [fut |-> fut, scheduled |-> {}, done |-> FALSE]
    ELSE [fut |-> [state |-> "cancelled", value |-> None, callbacks |-> {}],
          scheduled |-> fut.callbacks,
          done |-> TRUE]

\* Worker._executionContextCallback
_executionContextCallback(fut, value) == set_result(fut, value)

\* ------------------------------------- execution contexts (external type)
\* ExecutionContext(client, contextPayload, objectHandleFactory); the factory
\* closure reads the first element of the list the handler fills in
ExecutionContext(id, contextPayload, cell) ==
    [id |-> id, client |-> Session, contextId |-> contextPayload.id,
     _execution_contexts |-> cell]

\* JSHandle(context, client, remoteObject)
JSHandle(executionContext, client, remoteObject) ==
    [context |-> executionContext, client |-> client,
     remoteObject |-> remoteObject]

\* the closure jsHandleFactory of the proxy
jsHandleFactory(proxy, remoteObject) ==
    JSHandle(proxy._execution_contexts[1], Session, remoteObject)

\* what the remote target answers for a function run in a given context
RemoteEval(proxy, pageFunction, args) ==
    CASE pageFunction = "(a,b)=>a+b" ->
            [ok |-> TRUE, value |-> args[1] + args[2]]
      [] pageFunction = "self.id" ->
            [ok |-> TRUE, value |-> proxy.contextId]
      [] OTHER ->
            [ok |-> FALSE, value |-> "ElementHandleError"]

\* ExecutionContext.evaluate: the value, or the failure
ExecutionContext_evaluate(proxy, pageFunction, args) ==
    RemoteEval(proxy, pageFunction, args)

\* ExecutionContext.evaluateHandle: a handle made by the factory, or the
\* failure (of the remote call, or of the factory reading an empty list)
ExecutionContext_evaluateHandle(proxy, pageFunction, args) ==
    LET r == RemoteEval(proxy, pageFunction, args)
    IN  IF ~r.ok
        THEN r
        ELSE IF proxy._execution_contexts = <<>>
             THEN [ok |-> FALSE, value |-> "IndexError"]
             ELSE [ok |-> TRUE, value |-> jsHandleFactory(proxy, r.value)]

\* ------------------------------------------------------- event handlers
\* The part of the state a handler can touch.
HandlerState ==
    [promise |-> _executionContextPromise, ready |-> ready,
     contexts |-> contexts, sink |-> sinkCalls, error |-> "none"]

_on_execution_content_created_no_append(st, event) ==
    IF "context" \notin DOMAIN event
    THEN [st EXCEPT !.error = "KeyError"]
    ELSE
      LET id == Len(st.contexts) + 1
          executionContext == ExecutionContext(id, event.context, <<>>)
          r == _executionContextCallback(st.promise, executionContext)
      IN  [st EXCEPT !.contexts = Append(@, executionContext),
                     !.promise = r.fut,
                     !.ready = @ \cup r.scheduled,
                     !.error = r.error]

\* the closure registered for Runtime.executionContextCreated
_on_execution_content_created(st, event) ==
    IF "context" \notin DOMAIN event
    THEN [st EXCEPT !.error = "KeyError"]
    ELSE
      LET id == Len(st.contexts) + 1
          executionContext == ExecutionContext(id, event.context, <<id>>)
          r == _executionContextCallback(st.promise, executionContext)
      IN  [st EXCEPT !.contexts = Append(@, executionContext),
                     !.promise = r.fut,
                     !.ready = @ \cup r.scheduled,
                     !.error = r.error]

\* the caller-supplied sink: it is handed the event as it is
logEntryAdded(st, event) == [st EXCEPT !.sink = Append(@, event)]

RunHandler(h, st, event) ==
    IF h = "_on_execution_content_created"
    THEN _on_execution_content_created(st, event)
    ELSE logEntryAdded(st, event)

RECURSIVE RunHandlers(_, _, _)
\* EventEmitter.emit: the handlers in registration order; an exception of a
\* handler ends the emission and reaches the emitter
RunHandlers(hs, st, event) ==
    IF hs = <<>> \/ st.error # "none"
    THEN st
    ELSE RunHandlers(Tail(hs), RunHandler(Head(hs), st, event), event)

emit(client, event, payload) ==
    RunHandlers(client.listeners[event], HandlerState, payload)

\* ----------------------------------------------------------- construction
__init__no_except(client, url, sink, rejectRuntime, rejectLog) ==
    LET c1 == on(client, EvContext, "_on_execution_content_created")
        s1 == send(c1, "Runtime.enable", rejectRuntime)
        c2 == on(s1.client, EvLog, sink)
        s2 == send(c2, "Log.enable", rejectLog)
    IN  IF s1.raised
        THEN [raised |-> TRUE, client |-> s1.client, url |-> url,
              promise |-> create_future, debugLog |-> <<>>]
        ELSE [raised |-> s2.raised, client |-> s2.client, url |-> url,
              promise |-> create_future, debugLog |-> <<>>]

__init__return_on_failure(client, url, sink, rejectRuntime, rejectLog) ==
    LET c1 == on(client, EvContext, "_on_execution_content_created")
        s1 == send(c1, "Runtime.enable", rejectRuntime)
        c2 == on(s1.client, EvLog, sink)
        s2 == send(c2, "Log.enable", rejectLog)
        d2 == IF s2.raised THEN <<"Log.enable">> ELSE <<>>
    IN  IF s1.raised
        THEN [raised |-> FALSE, client |-> s1.client, url |-> url,
              promise |-> create_future,
              debugLog |-> debugError(<<>>, "Runtime.enable")]
        ELSE [raised |-> FALSE, client |-> s2.client, url |-> url,
              promise |-> create_future, debugLog |-> d2]

__init__sink_on_context_event(client, url, sink, rejectRuntime, rejectLog) ==
    LET c1 == on(client, EvContext, "_on_execution_content_created")
        s1 == send(c1, "Runtime.enable", rejectRuntime)
        d1 == IF s1.raised THEN debugError(<<>>, "Runtime.enable") ELSE <<>>
        c2 == on(s1.client, EvContext, sink)
        s2 == send(c2, "Log.enable", rejectLog)
        d2 == IF s2.raised THEN debugError(d1, "Log.enable") ELSE d1
    IN  [raised |-> FALSE, client |-> s2.client, url |-> url,
         promise |-> create_future, debugLog |-> d2]

__init__url_mixed_up(client, url, sink, rejectRuntime, rejectLog) ==
    LET c1 == on(client, EvContext, "_on_execution_content_created")
        s1 == send(c1, "Runtime.enable", rejectRuntime)
        d1 == IF s1.raised THEN debugError(<<>>, "Runtime.enable") ELSE <<>>
        c2 == on(s1.client, EvLog, sink)
        s2 == send(c2, "Log.enable", rejectLog)
        d2 == IF s2.raised THEN debugError(d1, "Log.enable") ELSE d1
    IN  [raised |-> FALSE, client |-> s2.client, url |-> Session,
         promise |-> create_future, debugLog |-> d2]

__init__enable_first(client, url, sink, rejectRuntime, rejectLog) ==
    LET s1 == send(client, "Runtime.enable", rejectRuntime)
        d1 == IF s1.raised THEN debugError(<<>>, "Runtime.enable") ELSE <<>>
        c1 == on(s1.client, EvContext, "_on_execution_content_created")
        c2 == on(c1, EvLog, sink)
        s2 == send(c2, "Log.enable", rejectLog)
        d2 == IF s2.raised THEN debugError(d1, "Log.enable") ELSE d1
    IN  [raised |-> FALSE, client |-> s2.client, url |-> url,
         promise |-> create_future, debugLog |-> d2]

\* Worker.__init__
__init__(client, url, sink, rejectRuntime, rejectLog) ==
    LET c1 == on(client, EvContext, "_on_execution_content_created")
        s1 == send(c1, "Runtime.enable", rejectRuntime)
        d1 == IF s1.raised THEN debugError(<<>>, "Runtime.enable") ELSE <<>>
        c2 == on(s1.client, EvLog, sink)
        s2 == send(c2, "Log.enable", rejectLog)
        d2 == IF s2.raised THEN debugError(d1, "Log.enable") ELSE d1
    IN  [raised |-> FALSE, client |-> s2.client, url |-> url,
         promise |-> create_future, debugLog |-> d2]

\* ---------------------------------------------------------- accessor calls
IdleCall ==
    [method |-> "none", pc |-> "idle", pageFunction |-> "", args |-> <<>>,
     early |-> FALSE, delegated |-> <<>>, result |-> None]

NewCall(method, pageFunction, args) ==
    [IdleCall EXCEPT !.method = method, !.pageFunction = pageFunction,
                     !.args = args,
                     !.early = (_executionContextPromise.state # "done")]

await_future_nowait(fut) ==
    [suspend |-> FALSE, value |-> fut.value, error |-> "none"]

\* `await fut`: a finished future hands over its result at once (a cancelled
\* one raises CancelledError), otherwise the task is suspended until the
\* future's callbacks run
await_future(fut) ==
    [suspend |-> fut.state = "pending",
     value |-> fut.value,
     error |-> IF fut.state = "cancelled" THEN "CancelledError" ELSE "none"]

\* the call made on the context once the promise has given it (a value that
\* is no context has no such method: AttributeError)
Delegate(call, proxy, method) ==
    IF proxy = None
    THEN [call EXCEPT !.pc = "done",
                      !.result = [ok |-> FALSE, value |-> "AttributeError"]]
    ELSE
    [call EXCEPT !.pc = "awaitContext",
                 !.delegated = Append(@, [context |-> proxy.id,
                                          method |-> method,
                                          pageFunction |-> call.pageFunction,
                                          args |-> call.args])]

\* Worker.executionContext after its await
executionContext_return(call, proxy) ==
    [call EXCEPT !.pc = "done", !.result = [ok |-> TRUE, value |-> proxy]]

\* Worker.evaluate after its first await
evaluate_delegate(call, proxy) == Delegate(call, proxy, "evaluate")

evaluateHandle_as_evaluate(call, proxy) == Delegate(call, proxy, "evaluate")

\* Worker.evaluateHandle after its first await
evaluateHandle_delegate(call, proxy) == Delegate(call, proxy, "evaluateHandle")

Continue(call, proxy) ==
    CASE call.method = "executionContext" -> executionContext_return(call, proxy)
      [] call.method = "evaluate" -> evaluate_delegate(call, proxy)
      [] OTHER -> evaluateHandle_delegate(call, proxy)

\* an exception leaves the accessor as it is
Raise(call, error) ==
    [call EXCEPT !.pc = "done", !.result = [ok |-> FALSE, value |-> error]]

\* the accessor goes on with what its await of the promise gave
Resume(call, a) ==
    IF a.error # "none" THEN Raise(call, a.error) ELSE Continue(call, a.value)

\* the first step of an accessor's task: up to its first suspension
Start(c, call) ==
    LET a == await_future(_executionContextPromise)
    IN  IF a.suspend
        THEN /\ calls' = [calls EXCEPT ![c] = [call EXCEPT !.pc = "awaitPromise"]]
             /\ _executionContextPromise' =
                    [_executionContextPromise EXCEPT !.callbacks = @ \cup {c}]
        ELSE /\ calls' = [calls EXCEPT ![c] = Resume(call, a)]
             /\ UNCHANGED _executionContextPromise

\* ---------------------------------------------------------------- actions
Init ==
    /\ constructed = FALSE
    /\ ctorRaised = FALSE
    /\ _client = NewSession
    /\ _url = None
    /\ _executionContextPromise = create_future
    /\ debugLog = <<>>
    /\ contexts = <<>>
    /\ ready = {}
    /\ calls = [c \in Callers |-> IdleCall]
    /\ contextEmitted = <<>>
    /\ logEmitted = <<>>
    /\ sinkCalls = <<>>
    /\ urlGiven = NoUrl
    /\ urlReturned = NoUrl
    /\ cancelled = {}

\* Worker(client, url, logEntryAdded)
Construct(url, rejectRuntime, rejectLog) ==
    /\ ~constructed /\ ~ctorRaised
    /\ LET w == __init__(_client, url, "logEntryAdded", rejectRuntime, rejectLog)
       IN  /\ constructed' = ~w.raised
           /\ ctorRaised' = w.raised
           /\ _client' = w.client
           /\ _url' = w.url
           /\ _executionContextPromise' = w.promise
           /\ debugLog' = w.debugLog
    /\ urlGiven' = url
    /\ UNCHANGED <<contexts, ready, calls, contextEmitted, logEmitted, sinkCalls,
                   urlReturned, cancelled>>

\* the session emits Runtime.executionContextCreated
EmitContextCreated(id) ==
    /\ constructed
    /\ Len(contextEmitted) < MaxContextEvents
    /\ LET event == [context |-> [id |-> id]]
           st == emit(_client, EvContext, event)
       IN  /\ _executionContextPromise' = st.promise
           /\ ready' = st.ready
           /\ contexts' = st.contexts
           /\ sinkCalls' = st.sink
           /\ contextEmitted' = Append(contextEmitted,
                                       [event |-> event, raised |-> st.error])
    /\ UNCHANGED <<constructed, ctorRaised, _client, _url, debugLog, calls,
                   logEmitted,
                   urlGiven, urlReturned, cancelled>>

\* the session emits Log.entryAdded
EmitLogEntryAdded(text) ==
    /\ constructed
    /\ Len(logEmitted) < MaxLogEvents
    /\ LET event == [entry |-> [text |-> text]]
           st == emit(_client, EvLog, event)
       IN  /\ _executionContextPromise' = st.promise
           /\ ready' = st.ready
           /\ contexts' = st.contexts
           /\ sinkCalls' = st.sink
           /\ logEmitted' = Append(logEmitted,
                                   [event |-> event, raised |-> st.error])
    /\ UNCHANGED <<constructed, ctorRaised, _client, _url, debugLog, calls,
                   contextEmitted,
                   urlGiven, urlReturned, cancelled>>

\* a caller starts worker.executionContext()
executionContext(c) ==
    /\ constructed
    /\ calls[c].pc = "idle"
    /\ Start(c, NewCall("executionContext", "", <<>>))
    /\ UNCHANGED <<constructed, ctorRaised, _client, _url, debugLog, contexts,
                   ready, contextEmitted, logEmitted, sinkCalls,
                   urlGiven, urlReturned, cancelled>>

\* a caller starts worker.evaluate(pageFunction, *args)
evaluate(c, pageFunction, args) ==
    /\ constructed
    /\ calls[c].pc = "idle"
    /\ Start(c, NewCall("evaluate", pageFunction, args))
    /\ UNCHANGED <<constructed, ctorRaised, _client, _url, debugLog, contexts,
                   ready, contextEmitted, logEmitted, sinkCalls,
                   urlGiven, urlReturned, cancelled>>

\* a caller starts worker.evaluateHandle(pageFunction, *args)
evaluateHandle(c, pageFunction, args) ==
    /\ constructed
    /\ calls[c].pc = "idle"
    /\ Start(c, NewCall("evaluateHandle", pageFunction, args))
    /\ UNCHANGED <<constructed, ctorRaised, _client, _url, debugLog, contexts,
                   ready, contextEmitted, logEmitted, sinkCalls,
                   urlGiven, urlReturned, cancelled>>

\* the url property: the stored url, at once
Worker_url ==
    /\ constructed
    /\ urlReturned' = _url
    /\ UNCHANGED <<constructed, ctorRaised, _client, _url,
                   _executionContextPromise, debugLog, contexts, ready, calls,
                   contextEmitted, logEmitted, sinkCalls, urlGiven,
                   cancelled>>

\* the loop runs the wake-up of a task that was suspended on the promise
WakeUp(c) ==
    /\ c \in ready
    /\ calls[c].pc = "awaitPromise"
    /\ ready' = ready \ {c}
    /\ calls' = [calls EXCEPT ![c] =
                    Resume(@, await_future(_executionContextPromise))]
    /\ UNCHANGED <<constructed, ctorRaised, _client, _url,
                   _executionContextPromise, debugLog, contexts,
                   contextEmitted, logEmitted, sinkCalls,
                   urlGiven, urlReturned, cancelled>>

ContextReturns_reset_on_failure(c) ==
    /\ calls[c].pc = "awaitContext"
    /\ LET d == calls[c].delegated[Len(calls[c].delegated)]
           proxy == contexts[d.context]
           r == IF d.method = "evaluate"
                THEN ExecutionContext_evaluate(proxy, d.pageFunction, d.args)
                ELSE ExecutionContext_evaluateHandle(proxy, d.pageFunction, d.args)
       IN  /\ calls' = [calls EXCEPT ![c] = [@ EXCEPT !.pc = "done", !.result = r]]
           /\ _executionContextPromise' =
                  IF r.ok THEN _executionContextPromise ELSE create_future
    /\ UNCHANGED <<constructed, ctorRaised, _client, _url,
                   debugLog, contexts, ready,
                   contextEmitted, logEmitted, sinkCalls,
                   urlGiven, urlReturned, cancelled>>

\* a deadline the caller has put around its call expires while the call is
\* suspended on the pending promise: Task.cancel() cancels the future the
\* task is waiting for
Cancel(c) ==
    /\ calls[c].pc = "awaitPromise"
    /\ c \notin cancelled
    /\ _executionContextPromise.state = "pending"
    /\ LET r == cancel_future(_executionContextPromise)
       IN  /\ _executionContextPromise' = r.fut
           /\ ready' = ready \cup r.scheduled
    /\ cancelled' = cancelled \cup {c}
    /\ UNCHANGED <<constructed, ctorRaised, _client, _url, debugLog, contexts,
                   calls, contextEmitted, logEmitted, sinkCalls, urlGiven,
                   urlReturned>>

\* the context answers a delegated call; the answer is handed on as it is
ContextReturns(c) ==
    /\ calls[c].pc = "awaitContext"
    /\ LET d == calls[c].delegated[Len(calls[c].delegated)]
           proxy == contexts[d.context]
           r == IF d.method = "evaluate"
                THEN ExecutionContext_evaluate(proxy, d.pageFunction, d.args)
                ELSE ExecutionContext_evaluateHandle(proxy, d.pageFunction, d.args)
       IN  calls' = [calls EXCEPT ![c] = [@ EXCEPT !.pc = "done", !.result = r]]
    /\ UNCHANGED <<constructed, ctorRaised, _client, _url,
                   _executionContextPromise, debugLog, contexts, ready,
                   contextEmitted, logEmitted, sinkCalls,
                   urlGiven, urlReturned, cancelled>>

\* Callers are numbered in the order in which they call.
IsNextCaller(c) ==
    /\ calls[c].pc = "idle"
    /\ \A d \in Callers : d < c => calls[d].pc # "idle"

Next ==
    \/ \E u \in Urls, rr \in BOOLEAN, rl \in BOOLEAN : Construct(u, rr, rl)
    \/ \E id \in ContextIds : EmitContextCreated(id)
    \/ \E c \in Callers : IsNextCaller(c) /\ executionContext(c)
    \/ \E c \in Callers, rq \in Requests :
          IsNextCaller(c) /\ evaluate(c, rq[1], rq[2])
    \/ \E c \in Callers, rq \in Requests :
          IsNextCaller(c) /\ evaluateHandle(c, rq[1], rq[2])
    \/ \E c \in Callers : WakeUp(c)
    \/ \E c \in Callers : ContextReturns(c)

Spec == Init /\ [][Next]_vars

\* The log relay on its own: construction and the two kinds of event.
NextLog ==
    \/ \E u \in Urls, rr \in BOOLEAN, rl \in BOOLEAN : Construct(u, rr, rl)
    \/ \E id \in ContextIds : EmitContextCreated(id)
    \/ \E t \in LogTexts : EmitLogEntryAdded(t)

SpecLog == Init /\ [][NextLog]_vars

\* Scheduling on its own: what is evaluated has no part in who is woken, so
\* one request stands for all of them.
NextWait ==
    \/ \E u \in Urls, rr \in BOOLEAN, rl \in BOOLEAN : Construct(u, rr, rl)
    \/ \E id \in ContextIds : EmitContextCreated(id)
    \/ \E c \in Callers : IsNextCaller(c) /\ executionContext(c)
    \/ \E c \in Callers : IsNextCaller(c) /\ evaluate(c, "self.id", <<>>)
    \/ \E c \in Callers : IsNextCaller(c) /\ evaluateHandle(c, "self.id", <<>>)
    \/ \E c \in Callers : WakeUp(c)
    \/ \E c \in Callers : ContextReturns(c)

\* The event loop runs every scheduled wake-up.
FairSpec ==
    Init /\ [][NextWait]_vars /\ \A c \in Callers : WF_vars(WakeUp(c))

\* The accessors side by side, url among them, on a handle of any url.
NextAccess ==
    \/ \E u \in AnyUrls, rr \in BOOLEAN, rl \in BOOLEAN : Construct(u, rr, rl)
    \/ \E id \in ContextIds : EmitContextCreated(id)
    \/ Worker_url
    \/ \E c \in Callers : IsNextCaller(c) /\ executionContext(c)
    \/ \E c \in Callers, f \in {"self.id", "()=>{throw 1}"} :
          IsNextCaller(c) /\ evaluate(c, f, <<>>)
    \/ \E c \in Callers : IsNextCaller(c) /\ evaluateHandle(c, "self.id", <<>>)
    \/ \E c \in Callers : WakeUp(c)
    \/ \E c \in Callers : ContextReturns(c)

SpecAccess == Init /\ [][NextAccess]_vars

\* Callers that put a deadline around their calls.
NextCancel ==
    \/ \E u \in Urls, rr \in BOOLEAN, rl \in BOOLEAN : Construct(u, rr, rl)
    \/ \E id \in ContextIds : EmitContextCreated(id)
    \/ \E c \in Callers : IsNextCaller(c) /\ executionContext(c)
    \/ \E c \in Callers : IsNextCaller(c) /\ evaluate(c, "self.id", <<>>)
    \/ \E c \in Callers : IsNextCaller(c) /\ evaluateHandle(c, "self.id", <<>>)
    \/ \E c \in Callers : Cancel(c)
    \/ \E c \in Callers : WakeUp(c)
    \/ \E c \in Callers : ContextReturns(c)

SpecCancel == Init /\ [][NextCancel]_vars

\* ------------------------------------------------------------ properties
Resolved == _executionContextPromise.state = "done"

\* the proxy the handler builds from the first delivery
FirstProxy == ExecutionContext(1, contextEmitted[1].event.context, <<1>>)

Completed(c) == calls[c].pc = "done"

\* what the context given by executionContext() answers to the call of c
ContextAnswer(c) ==
    IF calls[c].method = "evaluate"
    THEN ExecutionContext_evaluate(_executionContextPromise.value,
                                   calls[c].pageFunction, calls[c].args)
    ELSE ExecutionContext_evaluateHandle(_executionContextPromise.value,
                                         calls[c].pageFunction, calls[c].args)

\* C1: once a context-created event has been delivered, the promise is
\* resolved and holds the proxy built from the first delivery, however many
\* deliveries follow.
C1_ResolvedOnceByFirstEvent ==
    /\ (contextEmitted = <<>>) => ~Resolved
    /\ (contextEmitted # <<>>) =>
          /\ Resolved
          /\ _executionContextPromise.value = FirstProxy

C1_Witness ==
    /\ Len(contextEmitted) >= 2
    /\ contextEmitted[2].event # contextEmitted[1].event
    /\ Resolved

\* C2: an evaluate issued while the promise was pending and one issued after
\* it was resolved, for the same function and arguments, end with the same
\* outcome.
C2_EvaluateOrderIndependent ==
    \A c1 \in Callers, c2 \in Callers :
        ( /\ calls[c1].method = "evaluate" /\ calls[c2].method = "evaluate"
          /\ Completed(c1) /\ Completed(c2)
          /\ calls[c1].early /\ ~calls[c2].early
          /\ calls[c1].pageFunction = calls[c2].pageFunction
          /\ calls[c1].args = calls[c2].args )
        => calls[c1].result = calls[c2].result

C2_Witness ==
    \E c1 \in Callers, c2 \in Callers :
        /\ calls[c1].method = "evaluate" /\ calls[c2].method = "evaluate"
        /\ Completed(c1) /\ Completed(c2)
        /\ calls[c1].early /\ ~calls[c2].early
        /\ calls[c1].pageFunction = "self.id"
        /\ calls[c2].pageFunction = "self.id"
        /\ Len(contextEmitted) >= 2

\* C3: all completed executionContext() calls hold the identical proxy, and
\* once the promise is resolved every caller still suspended on it has its
\* wake-up scheduled.
C3_FanOutSameProxy ==
    /\ \A c1 \in Callers, c2 \in Callers :
          ( /\ calls[c1].method = "executionContext" /\ Completed(c1)
            /\ calls[c2].method = "executionContext" /\ Completed(c2) )
          => /\ calls[c1].result = calls[c2].result
             /\ calls[c1].result = [ok |-> TRUE, value |-> contexts[1]]
    /\ Resolved =>
          \A c \in Callers : calls[c].pc = "awaitPromise" => c \in ready

C3_Witness ==
    \E c1 \in Callers, c2 \in Callers :
        /\ c1 # c2
        /\ calls[c1].method = "executionContext" /\ Completed(c1)
        /\ calls[c2].method = "executionContext" /\ Completed(c2)
        /\ calls[c1].early /\ calls[c2].early
        /\ Len(contextEmitted) = 1

\* the requests the session rejected, in the order they were made
RECURSIVE RejectedSends(_)
RejectedSends(trace) ==
    IF trace = <<>>
    THEN <<>>
    ELSE IF Head(trace).rejected
         THEN <<Head(trace).name>> \o RejectedSends(Tail(trace))
         ELSE RejectedSends(Tail(trace))

\* C4: whichever of Runtime.enable and Log.enable the session rejects, the
\* constructor does not raise, and each rejection is logged.
C4_ConstructionNeverRaises ==
    /\ ~ctorRaised
    /\ (_client.trace # <<>>) => constructed
    /\ debugLog = RejectedSends(_client.trace)

C4_Witness ==
    /\ constructed
    /\ debugLog = <<"Runtime.enable", "Log.enable">>

ConstructionTrace ==
    << <<"on", EvContext>>, <<"send", "Runtime.enable">>,
       <<"on", EvLog>>, <<"send", "Log.enable">> >>

\* C5: a Worker whose enable request(s) failed has both subscriptions and has
\* made both requests; a context-created event resolves its promise, and its
\* accessor calls complete with the answers of that context.
C5_UsableAfterEnableFailure ==
    (constructed /\ debugLog # <<>>) =>
        /\ _client.listeners[EvContext] = <<"_on_execution_content_created">>
        /\ _client.listeners[EvLog] = <<"logEntryAdded">>
        /\ [i \in 1..Len(_client.trace) |->
               <<_client.trace[i].op, _client.trace[i].name>>] = ConstructionTrace
        /\ (contextEmitted # <<>>) =>
              /\ Resolved
              /\ _executionContextPromise.value = FirstProxy
              /\ \A c \in Callers : Completed(c) =>
                    calls[c].result =
                        IF calls[c].method = "executionContext"
                        THEN [ok |-> TRUE, value |-> FirstProxy]
                        ELSE ContextAnswer(c)

C5_Witness ==
    /\ constructed
    /\ "Runtime.enable" \in {debugLog[i] : i \in 1..Len(debugLog)}
    /\ \E c1 \in Callers, c2 \in Callers :
          /\ calls[c1].method = "evaluate" /\ Completed(c1) /\ calls[c1].result.ok
          /\ calls[c2].method = "evaluateHandle" /\ Completed(c2)

\* C6: evaluate and evaluateHandle delegate exactly once, with the function
\* and arguments they were given, to the context executionContext() gives,
\* and end with exactly what that context's method of the same name answers.
C6_PureShortcuts ==
    \A c \in Callers :
        calls[c].method \in {"evaluate", "evaluateHandle"} =>
            /\ calls[c].pc = "awaitPromise" => calls[c].delegated = <<>>
            /\ calls[c].pc \in {"awaitContext", "done"} =>
                  calls[c].delegated =
                      << [context |-> _executionContextPromise.value.id,
                          method |-> calls[c].method,
                          pageFunction |-> calls[c].pageFunction,
                          args |-> calls[c].args] >>
            /\ Completed(c) => calls[c].result = ContextAnswer(c)

C6_Witness ==
    \E c1 \in Callers, c2 \in Callers :
        /\ calls[c1].method = "evaluateHandle" /\ Completed(c1)
        /\ calls[c1].result.ok
        /\ calls[c2].method = "evaluate" /\ Completed(c2)
        /\ ~calls[c2].result.ok

\* C7: the sink has been called once per Log.entryAdded emission, with the
\* emitted event itself, in emission order, and for nothing else.
C7_LogPassThrough ==
    /\ sinkCalls = [i \in 1..Len(logEmitted) |-> logEmitted[i].event]
    /\ \A i \in 1..Len(logEmitted) : logEmitted[i].raised = "none"

C7_Witness ==
    /\ Len(sinkCalls) >= 2
    /\ sinkCalls[1] # sinkCalls[2]
    /\ contextEmitted # <<>>

\* C8: a second context-created event is dropped in silence: nothing is
\* raised to the emitter and the retained context stays.
C8_SecondDeliverySilent ==
    \A i \in 2..Len(contextEmitted) :
        /\ contextEmitted[i].raised = "none"
        /\ _executionContextPromise.value = FirstProxy

\* C9: a call suspended on the promise when it is resolved gets past the
\* promise: executionContext completes, evaluate and evaluateHandle reach
\* their delegated call.
C9_WaitersResume ==
    \A c \in Callers :
        (calls[c].pc = "awaitPromise" /\ Resolved)
            ~> (IF calls[c].method = "executionContext"
                THEN Completed(c)
                ELSE calls[c].pc \in {"awaitContext", "done"})

C9_Witness ==
    /\ \A c \in Callers :
          /\ calls[c].early
          /\ calls[c].pc \in {"awaitContext", "done"}
    /\ \E c \in Callers : calls[c].method = "executionContext"
    /\ \E c \in Callers : calls[c].method = "evaluate"

\* C10: while no context-created event has been delivered, no accessor call
\* has completed or failed, nor reached a context.
C10_NoContextNoCompletion ==
    (contextEmitted = <<>>) =>
        \A c \in Callers :
            /\ calls[c].pc \in {"idle", "awaitPromise"}
            /\ calls[c].result = None
            /\ calls[c].delegated = <<>>

C10_Witness ==
    /\ contextEmitted = <<>>
    /\ \A c \in Callers : calls[c].pc = "awaitPromise"
    /\ \E c \in Callers : calls[c].method = "executionContext"
    /\ \E c \in Callers : calls[c].method = "evaluate"

\* C11: every step in which evaluate or evaluateHandle reaches a context, or
\* completes, starts in a state in which a context-created event has
\* already been delivered.
C11_DeliveryPrecedesDelegation ==
    [][ \A c \in Callers :
          ( \/ Len(calls'[c].delegated) > Len(calls[c].delegated)
            \/ ( /\ calls'[c].method \in {"evaluate", "evaluateHandle"}
                 /\ calls'[c].pc = "done" /\ calls[c].pc # "done" ) )
          => /\ contextEmitted # <<>>
             /\ contextEmitted[1].raised = "none"
             /\ Len(contexts) >= 1 ]_vars

C11_Witness ==
    /\ \E c \in Callers :
          /\ calls[c].method = "evaluate" /\ calls[c].early
          /\ calls[c].delegated # <<>>
    /\ \E c \in Callers :
          /\ calls[c].method = "evaluateHandle" /\ ~calls[c].early
          /\ Completed(c)

\* C12: the handle's url is the url the constructor was given, and so is
\* whatever the url property has returned, in every state of the handle.
C12_UrlImmutable ==
    constructed =>
        /\ _url = urlGiven
        /\ urlReturned # NoUrl => urlReturned = urlGiven

C12_Witness ==
    /\ urlReturned = "data:text/javascript,1"
    /\ debugLog # <<>>
    /\ Len(contextEmitted) >= 2
    /\ \E c \in Callers : Completed(c) /\ ~calls[c].result.ok

\* the places in the session's record where the interaction was made
Places(op, name) ==
    {i \in 1..Len(_client.trace) :
        _client.trace[i].op = op /\ _client.trace[i].name = name}

\* C13: the session has been asked four things, each once: the subscription
\* to context-created before Runtime.enable, then the subscription to
\* Log.entryAdded before Log.enable; nothing is asked again later, whether
\* or not a request was rejected.
C13_FourInteractionsInOrder ==
    /\ ~constructed => _client.trace = <<>>
    /\ constructed =>
          /\ Len(_client.trace) = 4
          /\ Places("on", EvContext) = {1}
          /\ Places("send", "Runtime.enable") = {2}
          /\ Places("on", EvLog) = {3}
          /\ Places("send", "Log.enable") = {4}
          /\ Len(_client.listeners[EvContext]) = 1
          /\ Len(_client.listeners[EvLog]) = 1

C13_Witness ==
    /\ constructed
    /\ Len(_client.trace) = 4
    /\ _client.trace[2].rejected /\ _client.trace[4].rejected
    /\ Len(contextEmitted) >= 2
    /\ \A c \in Callers : Completed(c)

\* C14: the list the factory of the retained proxy reads holds that very
\* proxy, so every handle evaluateHandle has produced is bound to it and to
\* the Worker's session, and no factory call has found the list empty.
C14_FactoryBindsOwnProxy ==
    Resolved =>
        LET p == _executionContextPromise.value
        IN  /\ p._execution_contexts = <<p.id>>
            /\ contexts[p.id] = p
            /\ p.client = Session
            /\ \A c \in Callers :
                  (calls[c].method = "evaluateHandle" /\ Completed(c)) =>
                      IF calls[c].result.ok
                      THEN /\ calls[c].result.value.context = p.id
                           /\ calls[c].result.value.client = Session
                      ELSE calls[c].result.value # "IndexError"

C14_Witness ==
    /\ Len(contextEmitted) >= 2
    /\ \E c1 \in Callers, c2 \in Callers :
          /\ calls[c1].method = "evaluateHandle" /\ Completed(c1)
          /\ calls[c1].result.ok /\ calls[c1].early
          /\ calls[c2].method = "evaluateHandle" /\ Completed(c2)
          /\ calls[c2].result.ok /\ ~calls[c2].early

\* C15: a step of an accessor (a call starting, resuming, completing or
\* failing, or url being read) leaves the url, the state and value of the
\* promise, the session's subscriptions and requests, and the contexts as
\* they were; and where an evaluation has failed the promise still holds the
\* first proxy.
C15_AccessorsFrame ==
    [][ /\ (calls' # calls \/ urlReturned' # urlReturned) =>
              /\ _url' = _url
              /\ urlGiven' = urlGiven
              /\ _executionContextPromise'.state = _executionContextPromise.state
              /\ _executionContextPromise'.value = _executionContextPromise.value
              /\ _client' = _client
              /\ contexts' = contexts
              /\ debugLog' = debugLog
              /\ sinkCalls' = sinkCalls
        /\ (\E c \in Callers : calls'[c].pc = "done" /\ ~calls'[c].result.ok) =>
              /\ _executionContextPromise'.state = "done"
              /\ _executionContextPromise'.value = contexts'[1] ]_vars

C15_Witness ==
    /\ urlReturned # NoUrl
    /\ \E c1 \in Callers, c2 \in Callers :
          /\ calls[c1].method = "evaluate" /\ Completed(c1)
          /\ ~calls[c1].result.ok /\ calls[c1].early
          /\ calls[c2].method = "evaluateHandle" /\ Completed(c2)
          /\ calls[c2].result.ok /\ ~calls[c2].early

\* C16: when a caller's pending call has been abandoned, the promise is not
\* cancelled with it, no other caller's call ends with CancelledError, and
\* the delivery of the context-created event raises nothing.
C16_DeadlinesIsolated ==
    (cancelled # {}) =>
        /\ _executionContextPromise.state # "cancelled"
        /\ \A i \in 1..Len(contextEmitted) :
              i = 1 => contextEmitted[i].raised = "none"
        /\ \A d \in Callers \ cancelled :
              Completed(d) =>
                  \/ calls[d].result.ok
                  \/ calls[d].result.value # "CancelledError"

====
